---------------------------- MODULE Spec2Model ----------------------------
(***************************************************************************)
(* A model of jakeledoux/bank: the Account / Transaction models of        *)
(* models.py (balances, card numbers, the transaction log) and the Luhn   *)
(* card-number generator of card_number.py.                               *)
(*                                                                         *)
(* Money.  Amounts are Decimal values; the model counts them in           *)
(* thousandths (SubCent thousandths to a cent), so that an amount may     *)
(* carry more digits than the two the balance column keeps.  The balance  *)
(* column is the string f'{value:.2f}'; the model keeps it as the number  *)
(* of cents that string denotes.                                          *)
(***************************************************************************)
EXTENDS Integers, Sequences, FiniteSets, TLC

\* ------------------------------------------------------------- bounds
\* The most rows the transactions table is let grow to.
MaxTxn == 3
\* The longest issuer prefix and the largest total length handed to gen_number
\* when it is called on its own.
MaxPrefix == 2
MaxLength == 4
\* The longest digit string handed to calc_luhn / verify_luhn on their own.
MaxDigits == 3

\* The readings datetime.utcnow() can give.
Clock == {0, 1}

\* Thousandths per cent: the balance column keeps two decimals ('.2f').
SubCent == 10

\* length: int = 16, the default total length of a generated number.
DefaultLength == 16

\* The value Python's None takes in a card / public_key column.
None == <<-1>>

\* Display names handed to create, in order of creation.
AccountNames == <<"jake", "ishai">>

\* Amounts handed to deposit / withdraw / charge_card / send_funds,
\* in thousandths: -0.005, 0, 0.005, 0.01
Amounts == {-5, 0, 5, 10}

\* The digits randrange(10) is taken to draw from, and the draws of one
\* attempt: every digit of an attempt alike (0000..., 1111...).
RandDigits == {0, 1}

VARIABLES
  accounts,      \* table accounts: row id |-> [name, card, public_key, _balance]
  transactions,  \* table transactions, in insertion order
  now,           \* the latest reading of datetime.utcnow()
  last,          \* the latest call and its outcome
  gen,           \* a call of card_number.gen_number on its own
  workers        \* processes sharing bank.db, each with its own session

vars == <<accounts, transactions, now, last, gen, workers>>

\* --------------------------------------------------------- card_number.py

DoubledLastDigit(n) == (n * 2) % 10

\* The decimal digits of int(n) * 2, summed.
DoubledDigitSum(n) == ((n * 2) \div 10) + ((n * 2) % 10)

RECURSIVE SumDigits(_, _)
\* summed over positions i..Len(number): doubled[1::2] are the 0-based odd
\* indices, i.e. the even positions of the 1-based sequence.
SumDigits(number, i) ==
  IF i > Len(number) THEN 0
  ELSE (IF i % 2 = 0 THEN DoubledDigitSum(number[i]) ELSE number[i])
       + SumDigits(number, i + 1)

calc_luhn(number) == (SumDigits(number, 1) * 9) % 10

\* number[:-1]
AllButLast(number) == SubSeq(number, 1, Len(number) - 1)

verify_luhn(number) == calc_luhn(AllButLast(number)) = number[Len(number)]

\* range(length - len(issuer_number) - 1): empty when the count is negative.
NumRandom(issuer_number, length) ==
  IF length - Len(issuer_number) - 1 > 0 THEN length - Len(issuer_number) - 1 ELSE 0

\* The digit lists one attempt may draw.
Draws(n) == {[i \in 1..n |-> d] : d \in RandDigits}

full_number_noPrefix(issuer_number, digits) ==
  (issuer_number \o digits) \o <<calc_luhn(digits)>>

\* partial_number + str(calc_luhn(partial_number))
full_number(issuer_number, digits) ==
  (issuer_number \o digits) \o <<calc_luhn(issuer_number \o digits)>>

\* The candidates the attempts of gen_number can build.
Candidates(issuer_number, length) ==
  {full_number(issuer_number, ds) : ds \in Draws(NumRandom(issuer_number, length))}

\* What gen_number can return, the validator being given by the set of
\* numbers it rejects: the first candidate the validator accepts, or None when
\* every one of the attempts drew a rejected candidate.
gen_number(issuer_number, length, rejected) ==
  LET C == Candidates(issuer_number, length)
  IN  {c \in C : c \notin rejected}
        \cup (IF \E c \in C : c \in rejected THEN {None} ELSE {})

\* ---------------------------------------------------------------- models.py

ids == 1..Len(accounts)

\* Account.balance (getter): Decimal(self._balance), in thousandths.
balance(acct) == acct._balance * SubCent

\* f'{value:.2f}' of a Decimal: rounded half-even to two decimals; the
\* result is the number of cents the string denotes.
format_2f(value) ==
  LET q == value \div SubCent
      r == value % SubCent
  IN  IF 2 * r < SubCent THEN q
      ELSE IF 2 * r > SubCent THEN q + 1
      ELSE IF q % 2 = 0 THEN q ELSE q + 1

\* Account.balance (setter) on row id of table accts.
set_balance(accts, id, value) ==
  [accts EXCEPT ![id]._balance = format_2f(value)]

\* datetime.utcnow() read after an earlier reading t.
utcnow(t) == {d \in Clock : t <= d /\ d <= t + 1}

\* The row log_transaction adds for account id (the commit is the caller's
\* action as a whole).
log_transaction(txns, accts, id, amount, recipient, date) ==
  Append(txns, [account_ID |-> id, _amount |-> amount, recipient |-> recipient,
                date |-> date, balance |-> accts[id]._balance])

\* session.query(Account).filter_by(card=card_number): the matching rows;
\* .first() takes one of them (no ORDER BY).
query_by_card(card_number) == {i \in ids : accounts[i].card = card_number}

\* session.query(Account).filter_by(public_key=public_key)
query_by_public_key(public_key) == {i \in ids : accounts[i].public_key = public_key}

Call(op, self, amount, card, peer, err) ==
  [op |-> op, self |-> self, amount |-> amount, card |-> card, peer |-> peer, err |-> err]

\* An exception raised before anything was assigned.
Raise(op, self, amount, card, peer, err) ==
  /\ last' = Call(op, self, amount, card, peer, err)
  /\ UNCHANGED <<accounts, transactions, now>>

\* Account.gen_card_number: the validator asks that no account has the
\* number as its public_key.
KeyIsFree(n) == query_by_public_key(n) = {}

gen_card_number ==
  gen_number(<<>>, DefaultLength,
             {n \in Candidates(<<>>, DefaultLength) : ~KeyIsFree(n)})

\* The numbers callers present as card numbers / public keys.
CardNumbers == Candidates(<<>>, DefaultLength)

\* Account.create(name, email, password, card)
create(name, card) ==
  \E public_key \in gen_card_number :
    /\ accounts' = Append(accounts, [name |-> name, card |-> card,
                                     public_key |-> public_key, _balance |-> 0])
    /\ last' = Call("create", Len(accounts) + 1, 0, card, 0, "ok")
    /\ UNCHANGED <<transactions, now>>

\* Account.update_card(card_number), card_number a str
update_card(self, card_number) ==
  /\ accounts' = [accounts EXCEPT ![self].card = card_number]
  /\ last' = Call("update_card", self, 0, card_number, 0, "ok")
  /\ UNCHANGED <<transactions, now>>

\* Account.deposit(amount)
deposit(self, amount) ==
  IF amount > 0
  THEN LET a1 == set_balance(accounts, self, balance(accounts[self]) + amount)
       IN  \E d \in utcnow(now) :
             /\ accounts' = a1
             /\ transactions' =
                  log_transaction(transactions, a1, self, amount, "ATM Deposit", d)
             /\ now' = d
             /\ last' = Call("deposit", self, amount, None, 0, "ok")
  ELSE Raise("deposit", self, amount, None, 0, "ValueError")

withdraw_noCheck(self, amount) ==
  IF amount > 0
  THEN LET a1 == set_balance(accounts, self, balance(accounts[self]) - amount)
       IN  \E d \in utcnow(now) :
             /\ accounts' = a1
             /\ transactions' =
                  log_transaction(transactions, a1, self, -amount, "ATM Withdraw", d)
             /\ now' = d
             /\ last' = Call("withdraw", self, amount, None, 0, "ok")
  ELSE Raise("withdraw", self, amount, None, 0, "ValueError")

\* Account.withdraw(amount)
withdraw(self, amount) ==
  IF amount > 0
  THEN IF amount <= balance(accounts[self])
       THEN LET a1 == set_balance(accounts, self, balance(accounts[self]) - amount)
            IN  \E d \in utcnow(now) :
                  /\ accounts' = a1
                  /\ transactions' =
                       log_transaction(transactions, a1, self, -amount, "ATM Withdraw", d)
                  /\ now' = d
                  /\ last' = Call("withdraw", self, amount, None, 0, "ok")
       ELSE Raise("withdraw", self, amount, None, 0, "InsufficientBalanceError")
  ELSE Raise("withdraw", self, amount, None, 0, "ValueError")

charge_transfer_ownName(self, recipient, amount, card_number) ==
  LET a1 == set_balance(accounts, recipient, balance(accounts[recipient]) - amount)
      a2 == set_balance(a1, self, balance(a1[self]) + amount)
  IN  \E d1 \in utcnow(now) : \E d2 \in utcnow(d1) :
        /\ accounts' = a2
        /\ transactions' =
             log_transaction(
               log_transaction(transactions, a2, recipient, -amount, a2[recipient].name, d1),
               a2, self, amount, a2[self].name, d2)
        /\ now' = d2
        /\ last' = Call("charge", self, amount, card_number, recipient, "ok")

\* The transfer of charge_card once the recipient is found and has the funds:
\* charge_card: recipient.balance -= amount; self.balance += amount;
\*              recipient.log_transaction(-amount, self.name);
\*              self.log_transaction(amount, recipient.name)
charge_transfer(self, recipient, amount, card_number) ==
  LET a1 == set_balance(accounts, recipient, balance(accounts[recipient]) - amount)
      a2 == set_balance(a1, self, balance(a1[self]) + amount)
  IN  \E d1 \in utcnow(now) : \E d2 \in utcnow(d1) :
        /\ accounts' = a2
        /\ transactions' =
             log_transaction(
               log_transaction(transactions, a2, recipient, -amount, a2[self].name, d1),
               a2, self, amount, a2[recipient].name, d2)
        /\ now' = d2
        /\ last' = Call("charge", self, amount, card_number, recipient, "ok")

\* Account.charge_card(amount, card_number)
charge_card(self, amount, card_number) ==
  IF amount > 0
  THEN IF query_by_card(card_number) # {}
       THEN \E recipient \in query_by_card(card_number) :
              IF amount <= balance(accounts[recipient])
              THEN charge_transfer(self, recipient, amount, card_number)
              ELSE Raise("charge", self, amount, card_number, recipient,
                         "InsufficientBalanceError")
       ELSE Raise("charge", self, amount, card_number, 0, "AccountNotFoundError")
  ELSE Raise("charge", self, amount, card_number, 0, "ValueError")

\* send_funds: recipient.balance += amount; self.balance -= amount;
\*             recipient.log_transaction(amount, self.name);
\*             self.log_transaction(-amount, recipient.name)
send_transfer(self, recipient, amount, public_key) ==
  LET a1 == set_balance(accounts, recipient, balance(accounts[recipient]) + amount)
      a2 == set_balance(a1, self, balance(a1[self]) - amount)
  IN  \E d1 \in utcnow(now) : \E d2 \in utcnow(d1) :
        /\ accounts' = a2
        /\ transactions' =
             log_transaction(
               log_transaction(transactions, a2, recipient, amount, a2[self].name, d1),
               a2, self, -amount, a2[recipient].name, d2)
        /\ now' = d2
        /\ last' = Call("send", self, amount, public_key, recipient, "ok")

send_funds_lookupFirst(self, amount, public_key) ==
  IF amount > 0
  THEN IF query_by_public_key(public_key) # {}
       THEN IF amount <= balance(accounts[self])
            THEN \E recipient \in query_by_public_key(public_key) :
                   send_transfer(self, recipient, amount, public_key)
            ELSE Raise("send", self, amount, public_key, 0, "InsufficientBalanceError")
       ELSE Raise("send", self, amount, public_key, 0, "AccountNotFoundError")
  ELSE Raise("send", self, amount, public_key, 0, "ValueError")

send_funds_debitFirst(self, amount, public_key) ==
  IF amount > 0
  THEN IF amount <= balance(accounts[self])
       THEN IF query_by_public_key(public_key) # {}
            THEN \E recipient \in query_by_public_key(public_key) :
                   send_transfer(self, recipient, amount, public_key)
            ELSE /\ accounts' = set_balance(accounts, self, balance(accounts[self]) - amount)
                 /\ last' = Call("send", self, amount, public_key, 0, "AccountNotFoundError")
                 /\ UNCHANGED <<transactions, now>>
       ELSE Raise("send", self, amount, public_key, 0, "InsufficientBalanceError")
  ELSE Raise("send", self, amount, public_key, 0, "ValueError")

\* Account.send_funds(amount, public_key)
send_funds(self, amount, public_key) ==
  IF amount > 0
  THEN IF amount <= balance(accounts[self])
       THEN IF query_by_public_key(public_key) # {}
            THEN \E recipient \in query_by_public_key(public_key) :
                   send_transfer(self, recipient, amount, public_key)
            ELSE Raise("send", self, amount, public_key, 0, "AccountNotFoundError")
       ELSE Raise("send", self, amount, public_key, 0, "InsufficientBalanceError")
  ELSE Raise("send", self, amount, public_key, 0, "ValueError")

\* ------------------------------------------------- the calls, one at a time

NoCall == Call("none", 0, 0, None, 0, "ok")

GenIdle == [pc |-> "idle", issuer_number |-> <<>>, length |-> 0, taken |-> {},
            number |-> None]

InitBank ==
  /\ accounts = <<>>
  /\ transactions = <<>>
  /\ now = 0
  /\ last = NoCall

\* The processes that import models.py, each getting its own
\* session = Session(engine) on the one sqlite:///bank.db.
Procs == {1, 2}

\* A session with no call under way: nothing loaded, nothing pending.
IdleWorker == [pc |-> "idle", op |-> "none", self |-> 0, amount |-> 0, card |-> None,
               recipient |-> 0, bal |-> <<>>, todo |-> <<>>]

Init == InitBank /\ gen = GenIdle /\ workers = [p \in Procs |-> IdleWorker]

Create ==
  /\ Len(accounts) < Len(AccountNames)
  /\ \E card \in CardNumbers \cup {None} :
       create(AccountNames[Len(accounts) + 1], card)
  /\ UNCHANGED <<gen, workers>>

UpdateCard ==
  /\ \E self \in ids : \E card \in CardNumbers : update_card(self, card)
  /\ UNCHANGED <<gen, workers>>

Deposit ==
  /\ Len(transactions) + 1 <= MaxTxn
  /\ \E self \in ids : \E amount \in Amounts : deposit(self, amount)
  /\ UNCHANGED <<gen, workers>>

Withdraw ==
  /\ Len(transactions) + 1 <= MaxTxn
  /\ \E self \in ids : \E amount \in Amounts : withdraw(self, amount)
  /\ UNCHANGED <<gen, workers>>

ChargeCard ==
  /\ Len(transactions) + 2 <= MaxTxn
  /\ \E self \in ids : \E amount \in Amounts : \E card \in CardNumbers :
       charge_card(self, amount, card)
  /\ UNCHANGED <<gen, workers>>

SendFunds ==
  /\ Len(transactions) + 2 <= MaxTxn
  /\ \E self \in ids : \E amount \in Amounts : \E key \in CardNumbers :
       send_funds(self, amount, key)
  /\ UNCHANGED <<gen, workers>>

Next == Create \/ UpdateCard \/ Deposit \/ Withdraw \/ ChargeCard \/ SendFunds

Spec == Init /\ [][Next]_vars

\* ------------------------------------------------------------ the ledger

\* Account.transactions: the rows of the transactions table of account id.
entries_for(id) == SelectSeq(transactions, LAMBDA t : t.account_ID = id)

RECURSIVE SumAmounts(_)
\* The signed amounts of a list of transactions, summed (thousandths).
SumAmounts(txns) ==
  IF txns = <<>> THEN 0 ELSE Head(txns)._amount + SumAmounts(Tail(txns))

RECURSIVE SumBalances(_, _)
\* The balances of accounts 1..n of table accts, summed (cents).
SumBalances(accts, n) ==
  IF n = 0 THEN 0 ELSE accts[n]._balance + SumBalances(accts, n - 1)

TotalBalance == SumBalances(accounts, Len(accounts))

Transfers == {"charge", "send"}
FundsCalls == {"deposit", "withdraw", "charge", "send"}
Errors == {"ValueError", "InsufficientBalanceError", "AccountNotFoundError"}

\* C1: every account's balance equals the sum of the signed amounts of the
\* entries of its own log, after any sequence of deposit, withdraw, charge
\* and send calls.
C1_BalanceIsLedgerSum ==
  \A a \in ids : balance(accounts[a]) = SumAmounts(entries_for(a))

\* C2: every charge or send call, failed or not, payer and payee the same
\* account or not, leaves the total of the balances unchanged.
C2_TransferKeepsTotal ==
  [][last'.op \in Transfers => TotalBalance' = TotalBalance]_vars

\* C3: every account's balance is >= 0 in every state reached by calls made
\* one at a time.
C3_BalanceNonNegative == \A a \in ids : balance(accounts[a]) >= 0

\* A withdrawal of the whole balance has succeeded, and a later call asking
\* for more than an account has was refused.
C3_Witness ==
  /\ last.op \in {"withdraw", "charge", "send"}
  /\ last.err = "InsufficientBalanceError"
  /\ \E i \in 1..Len(transactions) :
       transactions[i]._amount < 0 /\ transactions[i].balance = 0

\* C4: a deposit, withdraw, charge or send that reports an error leaves the
\* balances of all accounts and all entry logs as they were before the call.
C4_FailureChangesNothing ==
  [][(last'.op \in FundsCalls /\ last'.err \in Errors)
       => (accounts' = accounts /\ transactions' = transactions)]_vars

\* A send of an amount the sender has, to a key no account holds, has
\* failed, with a non-empty ledger behind it.
C4_Witness ==
  /\ last.op = "send"
  /\ last.err = "AccountNotFoundError"
  /\ last.amount <= balance(accounts[last.self])
  /\ transactions # <<>>

\* The error charge_card reports for (amount, card_number) when .first()
\* gave row peer (0: no row), "ok" when it reports none.
ChargeOutcome(amount, card_number, peer) ==
  IF amount <= 0 THEN "ValueError"
  ELSE IF query_by_card(card_number) = {} THEN "AccountNotFoundError"
  ELSE IF amount > balance(accounts[peer]) THEN "InsufficientBalanceError"
  ELSE "ok"

\* The same for send_funds under the order claimed for both transfers:
\* amount, then lookup, then the payer's balance.
SendOutcomeLookupFirst(self, amount, public_key) ==
  IF amount <= 0 THEN "ValueError"
  ELSE IF query_by_public_key(public_key) = {} THEN "AccountNotFoundError"
  ELSE IF amount > balance(accounts[self]) THEN "InsufficientBalanceError"
  ELSE "ok"

\* The same for send_funds with the sender's balance checked before the lookup.
SendOutcomeBalanceFirst(self, amount, public_key) ==
  IF amount <= 0 THEN "ValueError"
  ELSE IF amount > balance(accounts[self]) THEN "InsufficientBalanceError"
  ELSE IF query_by_public_key(public_key) = {} THEN "AccountNotFoundError"
  ELSE "ok"

PeerResolved(call, matches) ==
  IF call.amount > 0 /\ matches # {} /\ call.err # "AccountNotFoundError"
     /\ (call.op = "charge" \/ call.err = "ok")
  THEN call.peer \in matches ELSE call.peer = 0

\* C7 as claimed: charge and send both report a non-positive amount first,
\* then an unresolvable card, then an insufficient payer balance.
C7_SameOrderForBoth ==
  [][/\ last'.op = "charge" =>
          /\ PeerResolved(last', query_by_card(last'.card))
          /\ last'.err = ChargeOutcome(last'.amount, last'.card, last'.peer)
     /\ last'.op = "send" =>
          last'.err = SendOutcomeLookupFirst(last'.self, last'.amount, last'.card)]_vars

\* C7 amended: charge reports a non-positive amount, then an unresolvable
\* card, then an insufficient balance of the charged account; send reports a
\* non-positive amount, then an insufficient balance of the sender, then an
\* unresolvable key.
C7_ErrorOrder ==
  [][/\ last'.op = "charge" =>
          /\ PeerResolved(last', query_by_card(last'.card))
          /\ last'.err = ChargeOutcome(last'.amount, last'.card, last'.peer)
     /\ last'.op = "send" =>
          /\ PeerResolved(last', query_by_public_key(last'.card))
          /\ last'.err = SendOutcomeBalanceFirst(last'.self, last'.amount, last'.card)]_vars

\* A send of more than the sender has, to a key no account holds, has been
\* answered, and so has a charge of more than any account has to a card no
\* account holds (the answer of a failed call leaves the tables as they were).
C7_Witness ==
  /\ last.op = "send"
  /\ last.err \in Errors
  /\ last.amount > 0
  /\ \E a \in ids : balance(accounts[a]) > 0
  /\ last.amount > balance(accounts[last.self])
  /\ query_by_public_key(last.card) = {}

\* C8: a successful charge or send appends exactly two entries to the
\* transactions table: one of the payer, with -amount and the payee's name,
\* and one of the payee, with +amount and the payer's name; the rows before
\* them, and so every other account's log, stay as they were.
C8_TwoCrossEntries ==
  [][(last'.op \in Transfers /\ last'.err = "ok") =>
       LET payer == IF last'.op = "charge" THEN last'.peer ELSE last'.self
           payee == IF last'.op = "charge" THEN last'.self ELSE last'.peer
           n     == Len(transactions)
       IN  /\ Len(transactions') = n + 2
           /\ SubSeq(transactions', 1, n) = transactions
           /\ \E i, j \in {n + 1, n + 2} :
                /\ i # j
                /\ transactions'[i].account_ID = payer
                /\ transactions'[i]._amount = -last'.amount
                /\ transactions'[i].recipient = accounts[payee].name
                /\ transactions'[j].account_ID = payee
                /\ transactions'[j]._amount = last'.amount
                /\ transactions'[j].recipient = accounts[payer].name]_vars

\* A charge between two different accounts has succeeded.
C8_Witness ==
  /\ last.op = "charge"
  /\ last.err = "ok"
  /\ last.peer # last.self
  /\ Len(transactions) = 3

\* C9: no two accounts hold the same card number, in the card column that
\* charge_card looks up or in the public_key column that send_funds looks up.
C9_CardNumbersUnique ==
  \A a, b \in ids :
    a # b => /\ accounts[a].card # None => accounts[a].card # accounts[b].card
             /\ accounts[a].public_key # None
                  => accounts[a].public_key # accounts[b].public_key

\* --------------------------------------- calls of several processes at once
\* Each process runs the handlers above statement by statement on its own
\* session.  accounts / transactions are the committed tables of bank.db.
\* A session loads a row's balance from the committed table when it first
\* reads it, keeps what the handler assigns (bal), and writes all of it with
\* the next session.commit(), which also expires what it had loaded.  Nothing
\* in models.py locks a row or the database between the read and the commit.
\* A call that raises leaves its session as it was before the call.

\* Whole-cent amounts (0, 0.01), in thousandths.
ConcAmounts == {0, 10}

\* The balance (cents) the session of w sees for row id: what it holds, or
\* else the committed column.
SessionBalance(w, id) ==
  IF id \in DOMAIN w.bal THEN w.bal[id] ELSE accounts[id]._balance

\* Entries the call of w will still add.
Reserved(w) ==
  IF w.pc = "log" THEN Len(w.todo)
  ELSE IF w.pc \in {"charge_self", "send_query"} THEN 2 ELSE 0

RECURSIVE SumReserved(_)
SumReserved(ps) ==
  IF ps = {} THEN 0
  ELSE LET p == CHOOSE q \in ps : TRUE IN Reserved(workers[p]) + SumReserved(ps \ {p})

Room(n) == Len(transactions) + SumReserved(Procs) + n <= MaxTxn

Entry(id, amount, recipient) == [id |-> id, amount |-> amount, recipient |-> recipient]

\* deposit, up to the call of log_transaction:
\*   if amount > 0: self.balance += amount
BeginDeposit(p) ==
  /\ workers[p].pc = "idle"
  /\ Room(1)
  /\ \E self \in ids : \E amount \in ConcAmounts :
       IF amount > 0
       THEN workers' = [workers EXCEPT ![p] =
              [pc |-> "log", op |-> "deposit", self |-> self, amount |-> amount,
               card |-> None, recipient |-> 0,
               bal |-> self :> format_2f(balance(accounts[self]) + amount),
               todo |-> <<Entry(self, amount, "ATM Deposit")>>]]
       ELSE UNCHANGED workers
  /\ UNCHANGED <<accounts, transactions, now, last, gen>>

\* withdraw, up to the call of log_transaction:
\*   if amount > 0: if amount <= self.balance: self.balance -= amount
BeginWithdraw(p) ==
  /\ workers[p].pc = "idle"
  /\ Room(1)
  /\ \E self \in ids : \E amount \in ConcAmounts :
       IF amount > 0 /\ amount <= balance(accounts[self])
       THEN workers' = [workers EXCEPT ![p] =
              [pc |-> "log", op |-> "withdraw", self |-> self, amount |-> amount,
               card |-> None, recipient |-> 0,
               bal |-> self :> format_2f(balance(accounts[self]) - amount),
               todo |-> <<Entry(self, -amount, "ATM Withdraw")>>]]
       ELSE UNCHANGED workers
  /\ UNCHANGED <<accounts, transactions, now, last, gen>>

\* charge_card, the query and the recipient's side:
\*   recipient = session.query(Account).filter_by(card=card_number).first()
\*   if recipient: if amount <= recipient.balance: recipient.balance -= amount
BeginCharge(p) ==
  /\ workers[p].pc = "idle"
  /\ Room(2)
  /\ \E self \in ids : \E amount \in ConcAmounts : \E card \in CardNumbers :
       IF amount > 0 /\ query_by_card(card) # {}
       THEN \E recipient \in query_by_card(card) :
              IF amount <= balance(accounts[recipient])
              THEN workers' = [workers EXCEPT ![p] =
                     [pc |-> "charge_self", op |-> "charge", self |-> self,
                      amount |-> amount, card |-> card, recipient |-> recipient,
                      bal |-> recipient :> format_2f(balance(accounts[recipient]) - amount),
                      todo |-> <<>>]]
              ELSE UNCHANGED workers
       ELSE UNCHANGED workers
  /\ UNCHANGED <<accounts, transactions, now, last, gen>>

\* charge_card: self.balance += amount (self is loaded here unless it is the
\* recipient), then the two log_transaction calls are due.
ChargeSelf(p) ==
  LET w == workers[p] IN
  /\ w.pc = "charge_self"
  /\ workers' = [workers EXCEPT ![p] =
       [w EXCEPT !.pc = "log",
                 !.bal = (w.self :> format_2f(SessionBalance(w, w.self) * SubCent + w.amount))
                           @@ w.bal,
                 !.todo = <<Entry(w.recipient, -w.amount, accounts[w.self].name),
                            Entry(w.self, w.amount, accounts[w.recipient].name)>>]]
  /\ UNCHANGED <<accounts, transactions, now, last, gen>>

\* send_funds, the sender's side:  if amount > 0: if amount <= self.balance
BeginSend(p) ==
  /\ workers[p].pc = "idle"
  /\ Room(2)
  /\ \E self \in ids : \E amount \in ConcAmounts : \E key \in CardNumbers :
       IF amount > 0 /\ amount <= balance(accounts[self])
       THEN workers' = [workers EXCEPT ![p] =
              [pc |-> "send_query", op |-> "send", self |-> self, amount |-> amount,
               card |-> key, recipient |-> 0,
               bal |-> self :> accounts[self]._balance, todo |-> <<>>]]
       ELSE UNCHANGED workers
  /\ UNCHANGED <<accounts, transactions, now, last, gen>>

\* send_funds, the query and both assignments:
\*   recipient = session.query(Account).filter_by(public_key=public_key).first()
\*   if recipient: recipient.balance += amount; self.balance -= amount
SendQuery(p) ==
  LET w == workers[p] IN
  /\ w.pc = "send_query"
  /\ IF query_by_public_key(w.card) # {}
     THEN \E recipient \in query_by_public_key(w.card) :
            LET b1 == (recipient :>
                         format_2f(SessionBalance(w, recipient) * SubCent + w.amount))
                      @@ w.bal
                b2 == (w.self :> format_2f(b1[w.self] * SubCent - w.amount)) @@ b1
            IN  workers' = [workers EXCEPT ![p] =
                  [w EXCEPT !.pc = "log", !.recipient = recipient, !.bal = b2,
                            !.todo = <<Entry(recipient, w.amount, accounts[w.self].name),
                                       Entry(w.self, -w.amount, accounts[recipient].name)>>]]
     ELSE workers' = [workers EXCEPT ![p] = IdleWorker]
  /\ UNCHANGED <<accounts, transactions, now, last, gen>>

\* log_transaction in the session of p: the new row takes str(self.balance)
\* as the session sees it; session.commit() writes the row and every balance
\* the session holds, and expires the session.  After the last one the
\* handler's own session.commit() has nothing left to write.
LogTransaction(p) ==
  LET w == workers[p]
      e == Head(w.todo)
  IN
  /\ w.pc = "log"
  /\ \E d \in utcnow(now) :
       /\ transactions' = Append(transactions,
            [account_ID |-> e.id, _amount |-> e.amount, recipient |-> e.recipient,
             date |-> d, balance |-> SessionBalance(w, e.id)])
       /\ now' = d
  /\ accounts' = [i \in ids |->
       IF i \in DOMAIN w.bal THEN [accounts[i] EXCEPT !._balance = w.bal[i]]
       ELSE accounts[i]]
  /\ workers' = [workers EXCEPT ![p] =
       IF Len(w.todo) = 1 THEN IdleWorker
       ELSE [w EXCEPT !.bal = <<>>, !.todo = Tail(w.todo)]]
  /\ UNCHANGED <<last, gen>>

\* Two accounts as two calls of create leave them, each with a card of its
\* own; the second public key may be missing (gen_number gave None).
InitConc ==
  /\ \E c \in {x \in CardNumbers \X CardNumbers : x[1] # x[2]} :
     \E k \in {x \in CardNumbers \X (CardNumbers \cup {None}) : x[1] # x[2]} :
       accounts = <<[name |-> AccountNames[1], card |-> c[1], public_key |-> k[1],
                     _balance |-> 0],
                    [name |-> AccountNames[2], card |-> c[2], public_key |-> k[2],
                     _balance |-> 0]>>
  /\ transactions = <<>>
  /\ now = 0
  /\ last = NoCall
  /\ gen = GenIdle
  /\ workers = [p \in Procs |-> IdleWorker]

NextConc ==
  \E p \in Procs :
    \/ BeginDeposit(p)
    \/ BeginWithdraw(p)
    \/ BeginCharge(p)
    \/ ChargeSelf(p)
    \/ BeginSend(p)
    \/ SendQuery(p)
    \/ LogTransaction(p)

SpecConc == InitConc /\ [][NextConc]_vars

\* A transfer of p between two accounts of which the committed tables hold
\* both balance changes and only the first of its two entries.
PartialTransfer(p) ==
  /\ workers[p].op \in Transfers
  /\ workers[p].self # workers[p].recipient
  /\ workers[p].pc = "log"
  /\ Len(workers[p].todo) = 1

\* C5: in every committed state, a transfer has either both its balance
\* changes and both its entries in the tables, or none of them.
C5_TransferCommitsAtOnce == \A p \in Procs : ~PartialTransfer(p)

AllIdle == \A p \in Procs : workers[p].pc = "idle"

\* C6: when the calls of all processes have returned, every balance reflects
\* every successful call on the account (it is the sum of the account's
\* entries, the amounts being whole cents) and is not below zero.
C6_NoLostUpdate ==
  AllIdle => \A a \in ids :
               /\ balance(accounts[a]) = SumAmounts(entries_for(a))
               /\ balance(accounts[a]) >= 0

\* ------------------------------------------------ gen_number on its own

Digits == 0..9

\* Digit strings of length 0..n
DigitStrings(n) == UNION {[1..k -> Digits] : k \in 0..n}

\* A call gen_number(issuer_number, length, validator): the validator
\* rejects the numbers in taken.
InitGen ==
  /\ InitBank
  /\ workers = [p \in Procs |-> IdleWorker]
  /\ \E issuer_number \in DigitStrings(MaxPrefix) : \E length \in 0..MaxLength :
       \E taken \in SUBSET Candidates(issuer_number, length) :
         gen = [pc |-> "called", issuer_number |-> issuer_number, length |-> length,
                taken |-> taken, number |-> None]

GenNumber ==
  /\ gen.pc = "called"
  /\ \E n \in gen_number(gen.issuer_number, gen.length, gen.taken) :
       gen' = [gen EXCEPT !.pc = "returned", !.number = n]
  /\ UNCHANGED <<accounts, transactions, now, last, workers>>

NextGen == GenNumber

SpecGen == InitGen /\ [][NextGen]_vars

\* C10: whenever gen_number returns a number (not None), verify_luhn of that
\* number is true, for every issuer prefix and every total length.
C10_GeneratedValidates ==
  (gen.pc = "returned" /\ gen.number # None) => verify_luhn(gen.number)

\* gen_number has returned a number built on a two-digit prefix, with random
\* digits between the prefix and the check digit.
C10_Witness ==
  /\ gen.pc = "returned"
  /\ gen.number # None
  /\ Len(gen.issuer_number) = 2
  /\ Len(gen.number) = 4
  /\ gen.issuer_number = <<4, 7>>

\* C11: a number gen_number returns has exactly `length` digits, begins with
\* the issuer prefix and ends with the check digit of the digits before it,
\* also when the prefix is as long as, or longer than, length - 1 (stated
\* for the total lengths from 1 on).
C11_LengthPrefixCheckDigit ==
  (gen.pc = "returned" /\ gen.number # None /\ gen.length >= 1) =>
     /\ Len(gen.number) = gen.length
     /\ SubSeq(gen.number, 1, Len(gen.issuer_number)) = gen.issuer_number
     /\ gen.number[Len(gen.number)] = calc_luhn(AllButLast(gen.number))

\* ------------------------------------------- gen_number, attempt by attempt

\* for _ in range(1000)
MaxAttempts == 1000

\* The issuer prefixes and total lengths of the calls followed attempt by attempt.
LoopPrefixes == {<<>>, <<4>>}
LoopLengths == {2, 3}

\* A call gen_number(issuer_number, length, validator) at the head of its
\* loop: attempts counts the candidates handed to the validator so far, seen
\* holds them; the validator rejects the numbers in taken.
InitLoop ==
  /\ InitBank
  /\ workers = [p \in Procs |-> IdleWorker]
  /\ \E issuer_number \in LoopPrefixes : \E length \in LoopLengths :
       \E taken \in SUBSET Candidates(issuer_number, length) :
         gen = [pc |-> "loop", issuer_number |-> issuer_number, length |-> length,
                taken |-> taken, number |-> None, attempts |-> 0, seen |-> {}]

GenAttempt_inverted ==
  /\ gen.pc = "loop"
  /\ gen.attempts < MaxAttempts
  /\ \E ds \in Draws(NumRandom(gen.issuer_number, gen.length)) :
       LET c == full_number(gen.issuer_number, ds)
       IN  IF c \in gen.taken
           THEN gen' = [gen EXCEPT !.pc = "returned", !.number = c,
                                   !.attempts = @ + 1, !.seen = @ \cup {c}]
           ELSE gen' = [gen EXCEPT !.attempts = @ + 1, !.seen = @ \cup {c}]
  /\ UNCHANGED <<accounts, transactions, now, last, workers>>

\* One pass of the loop body: draw the digits, build full_number, and
\* return it if validator(full_number).
GenAttempt ==
  /\ gen.pc = "loop"
  /\ gen.attempts < MaxAttempts
  /\ \E ds \in Draws(NumRandom(gen.issuer_number, gen.length)) :
       LET c == full_number(gen.issuer_number, ds)
       IN  IF c \notin gen.taken
           THEN gen' = [gen EXCEPT !.pc = "returned", !.number = c,
                                   !.attempts = @ + 1, !.seen = @ \cup {c}]
           ELSE gen' = [gen EXCEPT !.attempts = @ + 1, !.seen = @ \cup {c}]
  /\ UNCHANGED <<accounts, transactions, now, last, workers>>

\* range(1000) is used up: return None
GenExhausted ==
  /\ gen.pc = "loop"
  /\ gen.attempts = MaxAttempts
  /\ gen' = [gen EXCEPT !.pc = "returned", !.number = None]
  /\ UNCHANGED <<accounts, transactions, now, last, workers>>

NextLoop == GenAttempt \/ GenExhausted

SpecLoop == InitLoop /\ [][NextLoop]_vars

\* C12: gen_number hands at most 1000 candidates to the validator and never
\* goes on after one the validator accepted; the number it returns is one
\* the validator accepted; it gives up (None) only after 1000 candidates,
\* all rejected; and until it has returned it can always take its next step,
\* so the call ends within 1000 passes.
C12_BoundedFirstAccepted ==
  /\ gen.attempts <= MaxAttempts
  /\ gen.pc = "loop" => (gen.seen \subseteq gen.taken /\ ENABLED NextLoop)
  /\ (gen.pc = "returned" /\ gen.number # None) =>
        /\ gen.number \notin gen.taken
        /\ (gen.seen \ {gen.number}) \subseteq gen.taken
  /\ (gen.pc = "returned" /\ gen.number = None) =>
        /\ gen.attempts = MaxAttempts
        /\ gen.seen # {}
        /\ gen.seen \subseteq gen.taken

\* gen_number has given up after 1000 rejected candidates although the
\* validator would have accepted another candidate.
C12_Witness ==
  /\ gen.pc = "returned"
  /\ gen.number = None
  /\ gen.attempts = MaxAttempts
  /\ \E c \in Candidates(gen.issuer_number, gen.length) : c \notin gen.taken

\* C13: no call stores a rounded balance: whenever deposit, withdraw, charge
\* or send succeeds, each balance it assigns is exactly the old balance plus
\* or minus the amount (an amount with more than two decimals makes the call
\* fail instead).
C13_NoSilentRounding ==
  [][(last'.op \in FundsCalls /\ last'.err = "ok") =>
       LET s == last'.self
           r == last'.peer
           a == last'.amount
       IN  /\ last'.op = "deposit" => balance(accounts'[s]) = balance(accounts[s]) + a
           /\ last'.op = "withdraw" => balance(accounts'[s]) = balance(accounts[s]) - a
           /\ (last'.op = "charge" /\ s # r) =>
                /\ balance(accounts'[s]) = balance(accounts[s]) + a
                /\ balance(accounts'[r]) = balance(accounts[r]) - a
           /\ (last'.op = "send" /\ s # r) =>
                /\ balance(accounts'[s]) = balance(accounts[s]) - a
                /\ balance(accounts'[r]) = balance(accounts[r]) + a]_vars

\* ---------------------------------- calc_luhn / verify_luhn on their own

\* A non-empty digit string, before calc_luhn or verify_luhn is applied.
InitLuhn ==
  /\ InitBank
  /\ workers = [p \in Procs |-> IdleWorker]
  /\ \E number \in DigitStrings(MaxDigits) \ {<<>>} :
       gen = [pc |-> "start", number |-> number, check |-> 0, valid |-> FALSE,
              changed |-> number, changed_valid |-> FALSE]

\* check = calc_luhn(number)
CalcLuhn ==
  /\ gen.pc = "start"
  /\ gen' = [gen EXCEPT !.pc = "calc", !.check = calc_luhn(gen.number)]
  /\ UNCHANGED <<accounts, transactions, now, last, workers>>

\* valid = verify_luhn(number)
VerifyLuhn ==
  /\ gen.pc = "start"
  /\ gen' = [gen EXCEPT !.pc = "verified", !.valid = verify_luhn(gen.number)]
  /\ UNCHANGED <<accounts, transactions, now, last, workers>>

\* verify_luhn of the number with the digit at one position replaced by
\* another digit.
VerifyChanged ==
  /\ gen.pc = "verified"
  /\ \E i \in 1..Len(gen.number) : \E x \in Digits \ {gen.number[i]} :
       LET changed == [gen.number EXCEPT ![i] = x]
       IN  gen' = [gen EXCEPT !.pc = "reverified", !.changed = changed,
                              !.changed_valid = verify_luhn(changed)]
  /\ UNCHANGED <<accounts, transactions, now, last, workers>>

NextLuhn == CalcLuhn \/ VerifyLuhn \/ VerifyChanged

SpecLuhn == InitLuhn /\ [][NextLuhn]_vars

RECURSIVE StandardLuhnSum(_, _)
\* The Luhn sum of number from position i on: counting leftwards from the
\* last digit (the check digit), every second digit is doubled, the first of
\* them being the digit right before the check digit.
StandardLuhnSum(number, i) ==
  IF i > Len(number) THEN 0
  ELSE (IF (Len(number) - i) % 2 = 1
        THEN ((number[i] * 2) \div 10) + ((number[i] * 2) % 10)
        ELSE number[i])
       + StandardLuhnSum(number, i + 1)

StandardLuhnValid(number) == StandardLuhnSum(number, 1) % 10 = 0

\* C14: for every non-empty digit string d, of even or of odd length, d
\* followed by calc_luhn(d) passes the standard Luhn check.
C14_CheckDigitIsLuhn ==
  gen.pc = "calc" => StandardLuhnValid(gen.number \o <<gen.check>>)

\* C15: when verify_luhn accepts a digit string, it rejects the string with
\* any one digit (the check digit included) replaced by a different digit.
C15_SingleDigitErrorRejected ==
  (gen.pc = "reverified" /\ gen.valid) => ~gen.changed_valid

\* An accepted three-digit string has had its middle (doubled) digit changed
\* from 0 to 5 or from 4 to 9, and was verified again.
C15_Witness ==
  /\ gen.pc = "reverified"
  /\ gen.valid
  /\ Len(gen.number) = 3
  /\ gen.number[2] \in {0, 4}
  /\ gen.changed[2] = gen.number[2] + 5

\* ------------------------------------------- further claims on the ledger

\* C16: the two entries one successful charge or send adds carry the same
\* timestamp, whatever the clock does between the two log_transaction calls.
C16_TransferEntriesSameDate ==
  [][(last'.op \in Transfers /\ last'.err = "ok") =>
       transactions'[Len(transactions) + 1].date
         = transactions'[Len(transactions) + 2].date]_vars

\* C17: in every account's log, in creation order, each entry's recorded
\* balance is the recorded balance of the entry before it (0.00 before the
\* first) plus the entry's own signed amount -- stated for the logs whose
\* amounts are all whole cents, deposits, withdrawals and transfers alike,
\* a transfer from an account to itself included.
C17_BalanceSnapshotsChain ==
  \A a \in ids :
    LET log == entries_for(a)
    IN  (\A i \in 1..Len(log) : log[i]._amount % SubCent = 0) =>
          \A i \in 1..Len(log) :
            log[i].balance * SubCent
              = (IF i = 1 THEN 0 ELSE log[i - 1].balance * SubCent) + log[i]._amount

\* C18: a card number n that exactly one account A holds as its card, and no
\* other account holds as its public key, addresses A for send as it does
\* for charge: a send of a positive amount the sender has, to n, succeeds
\* and credits A; it does not report AccountNotFound.
C18_SendResolvesCard ==
  [][\A A \in ids :
       (/\ last'.op = "send"
        /\ last'.amount > 0
        /\ last'.amount <= balance(accounts[last'.self])
        /\ query_by_card(last'.card) = {A}
        /\ query_by_public_key(last'.card) \subseteq {A})
       => (last'.err = "ok" /\ last'.peer = A)]_vars

\* C19: every account create adds has balance 0.00, no entries, and a
\* generated identifier (public_key) that is present and that no earlier
\* account holds; create adds no account with a missing identifier.
C19_CreatedAccountHasFreshKey ==
  [][(last'.op = "create" /\ Len(accounts') = Len(accounts) + 1) =>
       LET id == Len(accounts')
       IN  /\ accounts'[id]._balance = 0
           /\ \A i \in 1..Len(transactions') : transactions'[i].account_ID # id
           /\ accounts'[id].public_key # None
           /\ \A i \in ids : accounts[i].public_key # accounts'[id].public_key]_vars

=============================================================================
